---- MODULE Spec2Model ----
(***************************************************************************)
(* A model of ContextSymbolTable (src/src/backend/ContextSymbolTable.ts):  *)
(* the per-grammar symbol table of vscode-antlr4, its action/predicate     *)
(* caches, its reference counter, its dependency links to other tables and *)
(* its queries.                                                            *)
(*                                                                         *)
(* The table extends antlr4-c3's SymbolTable and works with the source     *)
(* contexts, the symbol classes and the helpers of the extension.  Those   *)
(* are not part of the modelled file; the operators that stand for them    *)
(* carry "(lib)" or "(ext)" in their comment.                              *)
(***************************************************************************)
EXTENDS Integers, Sequences, FiniteSets, TLC

\* ------------------------------------------------------------- bounds
\* Symbols alive at the same time, over all tables.
MaxSyms == 4
\* Symbols of the one table of the specifications that look at a single table.
MaxLocal == 3
\* Largest reference count the model lets a name reach.
MaxRefs == 2
\* Token indexes run over 0..MaxPos.
MaxPos == 2

\* ------------------------------------------------------------ universe
Tables == {1, 2, 3}

\* An optional value: <<>> is JavaScript's undefined, <<v>> a present value.
undefined == <<>>

Some(v) == <<v>>

IsDefined(o) == o # undefined

\* (ext) The symbol classes of parser-symbols/, none a subclass of another.
TopLevelClasses ==
    << "ImportSymbol", "BuiltInTokenSymbol", "VirtualTokenSymbol",
       "FragmentTokenSymbol", "TokenSymbol", "BuiltInModeSymbol",
       "LexerModeSymbol", "BuiltInChannelSymbol", "TokenChannelSymbol",
       "RuleSymbol" >>

NamedActionClasses == {"LocalNamedActionSymbol", "GlobalNamedActionSymbol"}

PredicateClasses == {"ParserPredicateSymbol", "LexerPredicateSymbol"}

ActionClasses ==
    NamedActionClasses \cup PredicateClasses
        \cup {"ParserActionSymbol", "LexerActionSymbol"}

OtherClasses ==
    {"OptionsSymbol", "OptionSymbol", "TerminalSymbol", "AlternativeSymbol"}

\* (ext) The classes that extend ScopedSymbol: they can hold children.
ScopedClasses ==
    {"FragmentTokenSymbol", "TokenSymbol", "RuleSymbol", "OptionsSymbol",
     "AlternativeSymbol"}

\* (ext) Built-in symbols come from the runtime: they have no syntax anchor.
BuiltInClasses ==
    {"BuiltInTokenSymbol", "BuiltInModeSymbol", "BuiltInChannelSymbol"}

Range(s) == {s[i] : i \in 1..Len(s)}

Classes == Range(TopLevelClasses) \cup ActionClasses \cup OtherClasses

\* (ext) getKindFromSymbol: the kind of a symbol, by its name for the
\* tokenVocab option and by its class otherwise.
KindOfClass(cls) ==
    CASE cls = "ImportSymbol" -> "Import"
      [] cls = "BuiltInTokenSymbol" -> "BuiltInLexerToken"
      [] cls = "VirtualTokenSymbol" -> "VirtualLexerToken"
      [] cls = "FragmentTokenSymbol" -> "FragmentLexerToken"
      [] cls = "TokenSymbol" -> "LexerRule"
      [] cls = "BuiltInModeSymbol" -> "BuiltInMode"
      [] cls = "LexerModeSymbol" -> "LexerMode"
      [] cls = "BuiltInChannelSymbol" -> "BuiltInChannel"
      [] cls = "TokenChannelSymbol" -> "TokenChannel"
      [] cls = "RuleSymbol" -> "ParserRule"
      [] cls = "TerminalSymbol" -> "Terminal"
      [] cls = "LocalNamedActionSymbol" -> "LocalNamedAction"
      [] cls = "GlobalNamedActionSymbol" -> "GlobalNamedAction"
      [] cls = "ParserActionSymbol" -> "ParserAction"
      [] cls = "LexerActionSymbol" -> "LexerAction"
      [] cls = "ParserPredicateSymbol" -> "ParserPredicate"
      [] cls = "LexerPredicateSymbol" -> "LexerPredicate"
      [] OTHER -> "Unknown"

\* The kinds getSymbolOfType has a case for (lines 499-547).
LookupKinds ==
    {"TokenVocab", "Import", "BuiltInLexerToken", "VirtualLexerToken",
     "FragmentLexerToken", "LexerRule", "BuiltInMode", "LexerMode",
     "BuiltInChannel", "TokenChannel", "ParserRule"}

SymbolKinds == {KindOfClass(c) : c \in Classes} \cup LookupKinds

SymbolGroupKinds == {"TokenRef", "LexerMode", "TokenChannel", "RuleRef"}

CodeActionTypes ==
    {"GlobalNamed", "LocalNamed", "ParserAction", "LexerAction",
     "ParserPredicate", "LexerPredicate"}

\* (ext) The source context that owns table c: its display name and its id.
fileName(c) == << "A.g4", "AB.g4", "C.g4" >>[c]

sourceId(c) == << "/g/A.g4", "/g/AB.g4", "/g/C.g4" >>[c]

Names == {"A", "AB", "tokenVocab", "options", "expr", "skip"}

\* String.prototype.includes.
Includes(str, sub) ==
    \E i \in 1..(Len(str) - Len(sub) + 1) : SubSeq(str, i, i + Len(sub) - 1) = sub

\* Parents and anchors.
TableRef(t) == [kind |-> "table", id |-> t]

SymbolRef(s) == [kind |-> "symbol", id |-> s]

\* A source interval: the first and the last token index of a tree node.
Intervals == {i \in (0..MaxPos) \X (0..MaxPos) : i[1] <= i[2]}

NoCtx == <<>>

\* ---------------------------------------------------------------- state
VARIABLES
    symbols,          \* every symbol created: [cls, name, parent, ctx]
    dependencies,     \* table -> the tables it depends on, in insertion order
    owner,            \* table -> its source context, or undefined
    references,       \* (ext) context -> the contexts that depend on it
    symbolReferences, \* table -> (name -> count), the names present only
    namedActions,
    parserActions,
    lexerActions,
    parserPredicates,
    lexerPredicates,  \* table -> the cache, a sequence of symbol ids
    lastOp,           \* history: the operation that led here
    refCalls,         \* history: table -> name -> increments since clear
    predOrder         \* history: table -> predicates defined since clear

vars ==
    << symbols, dependencies, owner, references, symbolReferences,
       namedActions, parserActions, lexerActions, parserPredicates,
       lexerPredicates, lastOp, refCalls, predOrder >>

\* ------------------------------------------------- the symbol tree (lib)
Ids == 1..Len(symbols)

RECURSIVE SortedSeq(_)
SortedSeq(S) ==
    IF S = {} THEN <<>>
    ELSE LET m == CHOOSE x \in S : \A y \in S : x <= y
         IN <<m>> \o SortedSeq(S \ {m})

\* (lib) ScopedSymbol.children: the children of a scope, in insertion order.
children(p) == SortedSeq({s \in Ids : symbols[s].parent = p})

\* (lib) BaseSymbol.symbolTable: the table at the top of the parent chain.
RECURSIVE symbolTable(_)
symbolTable(s) ==
    LET p == symbols[s].parent
    IN CASE p.kind = "table" -> Some(p.id)
         [] OTHER -> symbolTable(p.id)

\* The first symbol of a sequence with the given name.
RECURSIVE FirstNamed(_, _)
FirstNamed(seq, name) ==
    IF seq = <<>> THEN undefined
    ELSE IF symbols[Head(seq)].name = name THEN Some(Head(seq))
    ELSE FirstNamed(Tail(seq), name)

\* (lib) resolveSync of BaseSymbol, ScopedSymbol and SymbolTable: the first
\* child with that name; a scope that finds none asks its parent unless
\* localOnly; a table that finds none asks its dependencies, in insertion
\* order, each with localOnly = false.
RECURSIVE resolveSync(_, _, _)
RECURSIVE ResolveInDependencies(_, _)
resolveSync(p, name, localOnly) ==
    IF p.kind = "table"
    THEN LET result == FirstNamed(children(p), name)
         IN IF IsDefined(result) \/ localOnly THEN result
            ELSE ResolveInDependencies(dependencies[p.id], name)
    ELSE LET s == symbols[p.id]
             result == IF s.cls \in ScopedClasses
                       THEN FirstNamed(children(p), name)
                       ELSE undefined
         IN IF IsDefined(result) THEN result
            ELSE IF s.cls \in ScopedClasses /\ localOnly THEN undefined
            ELSE IF s.cls \in ScopedClasses THEN resolveSync(s.parent, name, FALSE)
            ELSE resolveSync(s.parent, name, localOnly)

ResolveInDependencies(deps, name) ==
    IF deps = <<>> THEN undefined
    ELSE LET result == resolveSync(TableRef(Head(deps)), name, FALSE)
         IN IF IsDefined(result) THEN result
            ELSE ResolveInDependencies(Tail(deps), name)

\* (lib) SymbolTable.getAllSymbolsSync: the direct children of the class
\* (no class of the model is a namespace), then, unless localOnly, those of
\* the dependencies.
RECURSIVE getAllSymbolsSync(_, _, _)
RECURSIVE AllSymbolsOfDependencies(_, _)
getAllSymbolsSync(t, cls, localOnly) ==
    LET own == SelectSeq(children(TableRef(t)), LAMBDA s : symbols[s].cls = cls)
    IN IF localOnly THEN own
       ELSE own \o AllSymbolsOfDependencies(dependencies[t], cls)

AllSymbolsOfDependencies(deps, cls) ==
    IF deps = <<>> THEN <<>>
    ELSE getAllSymbolsSync(Head(deps), cls, FALSE)
            \o AllSymbolsOfDependencies(Tail(deps), cls)

\* (ext) getKindFromSymbol.
getKindFromSymbol(s) ==
    IF symbols[s].name = "tokenVocab" THEN "TokenVocab"
    ELSE KindOfClass(symbols[s].cls)

\* (ext) definitionForContext: the span of an anchor, undefined without one.
definitionForContext(ctx) ==
    IF ctx = NoCtx THEN undefined
    ELSE Some([start |-> ctx[1], stop |-> ctx[2]])

\* (ext) The parse tree of a table's file spans the whole token stream.
tree(t) == <<0, MaxPos>>

\* ------------------------------------------------------------- queries
\* Lines 498-553: all kinds but TokenVocab resolve the bare name in the table;
\* TokenVocab resolves it in the "options" scope; other kinds find nothing.
getSymbolOfType(t, name, kind, localOnly) ==
    IF kind = "TokenVocab"
    THEN LET options == resolveSync(TableRef(t), "options", TRUE)
         IN IF IsDefined(options)
            THEN resolveSync(SymbolRef(options[1]), name, localOnly)
            ELSE undefined
    ELSE IF kind \in LookupKinds
    THEN resolveSync(TableRef(t), name, localOnly)
    ELSE undefined

\* Lines 61-63.
symbolExists(t, name, kind, localOnly) ==
    getSymbolOfType(t, name, kind, localOnly) # undefined

\* Lines 65-117.
symbolExistsInGroup(t, symbol, kind, localOnly) ==
    CASE kind = "TokenRef" ->
            \/ symbolExists(t, symbol, "BuiltInLexerToken", localOnly)
            \/ symbolExists(t, symbol, "VirtualLexerToken", localOnly)
            \/ symbolExists(t, symbol, "FragmentLexerToken", localOnly)
            \/ symbolExists(t, symbol, "LexerRule", localOnly)
      [] kind = "LexerMode" ->
            \/ symbolExists(t, symbol, "BuiltInMode", localOnly)
            \/ symbolExists(t, symbol, "LexerMode", localOnly)
      [] kind = "TokenChannel" ->
            \/ symbolExists(t, symbol, "BuiltInChannel", localOnly)
            \/ symbolExists(t, symbol, "TokenChannel", localOnly)
      [] kind = "RuleRef" -> symbolExists(t, symbol, "ParserRule", localOnly)
      [] OTHER -> FALSE

\* Lines 119-126.
contextForSymbol(t, symbolName, kind, localOnly) ==
    LET symbol == getSymbolOfType(t, symbolName, kind, localOnly)
    IN IF symbol = undefined THEN undefined
       ELSE Some(symbols[symbol[1]].ctx)

\* Lines 145-154: what the callback returns for each dependency whose owner's
\* id includes the name.  forEach discards what its callback returns.
VocabImportMatches(t, name, kind) ==
    LET hit(d) == IsDefined(owner[d]) /\ Includes(sourceId(owner[d][1]), name)
        rec(d) == [kind |-> kind, name |-> name,
                   source |-> fileName(owner[d][1]),
                   definition |-> definitionForContext(tree(d))]
        deps == SelectSeq(dependencies[t], hit)
    IN [i \in 1..Len(deps) |-> rec(deps[i])]

\* Lines 161-167: every dependency that resolves the name replaces the
\* symbol; the loop runs to the end.
RECURSIVE TerminalLoop(_, _, _)
TerminalLoop(deps, name, symbol) ==
    IF deps = <<>> THEN symbol
    ELSE LET actualSymbol == resolveSync(TableRef(Head(deps)), name, FALSE)
         IN TerminalLoop(Tail(deps), name,
                IF IsDefined(actualSymbol) THEN actualSymbol[1] ELSE symbol)

\* Lines 177-185, and 486-492 with the root for the table: the record of a
\* symbol.  "of" is history: the symbol the record describes.
SymbolRecord(kind, name, s) ==
    LET symTable == symbolTable(s)
    IN [kind |-> kind, name |-> name,
        source |-> IF symbols[s].ctx # NoCtx /\ IsDefined(symTable)
                       /\ IsDefined(owner[symTable[1]])
                   THEN fileName(owner[symTable[1]][1])
                   ELSE "ANTLR runtime",
        definition |-> definitionForContext(symbols[s].ctx),
        of |-> s]

\* Lines 137-186: getSymbolInfo of a symbol.
getSymbolInfo(t, s) ==
    LET kind == getKindFromSymbol(s)
        name == symbols[s].name
        final == IF kind = "Terminal"
                 THEN TerminalLoop(dependencies[t], name, s)
                 ELSE s
    IN SymbolRecord(getKindFromSymbol(final), name, final)

\* The lookup of a name that looks no further than the direct dependencies.
getSymbolInfoByNameOneHop(t, name) ==
    LET own == resolveSync(TableRef(t), name, TRUE)
        direct == SelectSeq(dependencies[t],
                    LAMBDA d : IsDefined(resolveSync(TableRef(d), name, TRUE)))
        temp == IF IsDefined(own) \/ direct = <<>> THEN own
                ELSE resolveSync(TableRef(Head(direct)), name, TRUE)
    IN IF temp = undefined THEN undefined ELSE Some(getSymbolInfo(t, temp[1]))

\* Lines 128-135: getSymbolInfo of a name.
getSymbolInfoByName(t, name) ==
    LET temp == resolveSync(TableRef(t), name, FALSE)
    IN IF temp = undefined THEN undefined ELSE Some(getSymbolInfo(t, temp[1]))

\* new Set(symbols): the first occurrence of each element, in order.
RECURSIVE Dedup(_)
Dedup(seq) ==
    IF seq = <<>> THEN <<>>
    ELSE LET init == Dedup(SubSeq(seq, 1, Len(seq) - 1))
             last == seq[Len(seq)]
         IN IF last \in Range(init) THEN init ELSE Append(init, last)

\* Lines 478-496.
symbolsOfType(t, cls, localOnly) ==
    LET filtered == Dedup(getAllSymbolsSync(t, cls, localOnly))
    IN [i \in 1..Len(filtered) |->
            SymbolRecord(getKindFromSymbol(filtered[i]),
                         symbols[filtered[i]].name, filtered[i])]

\* Lines 192-201: the record of the tokenVocab option, when there is one.
TokenVocabEntry(t) ==
    LET options == resolveSync(TableRef(t), "options", TRUE)
        tokenVocab == IF IsDefined(options)
                      THEN resolveSync(SymbolRef(options[1]), "tokenVocab", TRUE)
                      ELSE undefined
    IN IF IsDefined(tokenVocab) THEN <<getSymbolInfo(t, tokenVocab[1])>> ELSE <<>>

\* The listing with the tokens after the lexer modes.
listTopLevelSymbolsModesFirst(t, localOnly) ==
    TokenVocabEntry(t)
        \o symbolsOfType(t, "ImportSymbol", localOnly)
        \o symbolsOfType(t, "BuiltInTokenSymbol", localOnly)
        \o symbolsOfType(t, "VirtualTokenSymbol", localOnly)
        \o symbolsOfType(t, "FragmentTokenSymbol", localOnly)
        \o symbolsOfType(t, "BuiltInModeSymbol", localOnly)
        \o symbolsOfType(t, "LexerModeSymbol", localOnly)
        \o symbolsOfType(t, "TokenSymbol", localOnly)
        \o symbolsOfType(t, "BuiltInChannelSymbol", localOnly)
        \o symbolsOfType(t, "TokenChannelSymbol", localOnly)
        \o symbolsOfType(t, "RuleSymbol", localOnly)

\* Lines 189-225.
listTopLevelSymbols(t, localOnly) ==
    TokenVocabEntry(t)
        \o symbolsOfType(t, "ImportSymbol", localOnly)
        \o symbolsOfType(t, "BuiltInTokenSymbol", localOnly)
        \o symbolsOfType(t, "VirtualTokenSymbol", localOnly)
        \o symbolsOfType(t, "FragmentTokenSymbol", localOnly)
        \o symbolsOfType(t, "TokenSymbol", localOnly)
        \o symbolsOfType(t, "BuiltInModeSymbol", localOnly)
        \o symbolsOfType(t, "LexerModeSymbol", localOnly)
        \o symbolsOfType(t, "BuiltInChannelSymbol", localOnly)
        \o symbolsOfType(t, "TokenChannelSymbol", localOnly)
        \o symbolsOfType(t, "RuleSymbol", localOnly)

\* Lines 443-475.
actionListOfType(t, type) ==
    CASE type = "LocalNamed" ->
            SelectSeq(namedActions[t],
                      LAMBDA s : symbols[s].cls = "LocalNamedActionSymbol")
      [] type = "ParserAction" -> parserActions[t]
      [] type = "LexerAction" -> lexerActions[t]
      [] type = "ParserPredicate" -> parserPredicates[t]
      [] type = "LexerPredicate" -> lexerPredicates[t]
      [] OTHER ->
            SelectSeq(namedActions[t],
                      LAMBDA s : symbols[s].cls = "GlobalNamedActionSymbol")

\* String.prototype.toLowerCase on the names of the model.
toLowerCase(name) ==
    CASE name = "A" -> "a"
      [] name = "AB" -> "ab"
      [] OTHER -> name

\* (lib) ParseTree.getText: the text of the tokens the anchor spans.
getText(ctx) == [text |-> ctx]

\* Lines 255-262: the record pushed when the loop has thrown.
ActionsError ==
    [kind |-> "Unknown",
     name |-> "Error getting actions list",
     description |-> "Internal error occurred while collecting the list of defined actions",
     source |-> ""]

\* Lines 240-253: the record of one entry; the range of a "skip" action is
\* made three wide.
ActionRecord(t, entry) ==
    LET definition == definitionForContext(symbols[entry].ctx)
        name == symbols[entry].name
    IN [kind |-> getKindFromSymbol(entry),
        name |-> name,
        source |-> IF IsDefined(owner[t]) THEN fileName(owner[t][1]) ELSE "",
        definition |-> IF IsDefined(definition) /\ toLowerCase(name) = "skip"
                       THEN Some([definition[1] EXCEPT
                                    !.stop = definition[1].start + 3])
                       ELSE definition,
        description |-> getText(symbols[entry].ctx)]

\* Lines 237-254: the loop over the list.  entry.context!.getText() throws
\* for an entry without context, before its record is pushed; what was
\* pushed before stays in result.
RECURSIVE ActionsLoop(_, _, _)
ActionsLoop(t, list, result) ==
    IF list = <<>> THEN [threw |-> FALSE, result |-> result]
    ELSE IF symbols[Head(list)].ctx = NoCtx
    THEN [threw |-> TRUE, result |-> result]
    ELSE ActionsLoop(t, Tail(list), Append(result, ActionRecord(t, Head(list))))

\* Lines 234-265.
listActions(t, type) ==
    LET run == ActionsLoop(t, actionListOfType(t, type), <<>>)
    IN IF run.threw THEN Append(run.result, ActionsError) ELSE run.result

\* Lines 267-286.
getActionCounts(t) ==
    [type \in CodeActionTypes |->
        CASE type = "LocalNamed" ->
                Len(SelectSeq(namedActions[t],
                        LAMBDA s : symbols[s].cls = "LocalNamedActionSymbol"))
          [] type = "GlobalNamed" ->
                Len(SelectSeq(namedActions[t],
                        LAMBDA s : symbols[s].cls = "GlobalNamedActionSymbol"))
          [] type = "ParserAction" -> Len(parserActions[t])
          [] type = "LexerAction" -> Len(lexerActions[t])
          [] type = "ParserPredicate" -> Len(parserPredicates[t])
          [] OTHER -> Len(lexerPredicates[t])]

\* Lines 288-295: a name that is absent, or whose count is 0, gives 0.
getReferenceCount(t, symbolName) ==
    IF symbolName \in DOMAIN symbolReferences[t]
          /\ symbolReferences[t][symbolName] # 0
    THEN symbolReferences[t][symbolName]
    ELSE 0

\* Lines 297-306: the names of the entries whose count is 0 (as a set).
getUnreferencedSymbols(t) ==
    {n \in DOMAIN symbolReferences[t] : symbolReferences[t][n] = 0}

\* (lib) Interval.properlyContains: both ends within, equal ends included.
properlyContains(this, other) ==
    other[1] >= this[1] /\ other[2] <= this[2]

\* Lines 410-434: the first child with an anchor that contains the context;
\* from there the same search among its children when it is a scope, and the
\* child itself when that finds nothing.
RECURSIVE findRecursive(_, _)
RECURSIVE FindAmong(_, _)
findRecursive(parent, context) == FindAmong(children(parent), context)

\* The search that stops at the first level.
FindAmongTopOnly(seq, context) ==
    LET hits == SelectSeq(seq, LAMBDA s : /\ symbols[s].ctx # NoCtx
                                          /\ properlyContains(symbols[s].ctx, context))
    IN IF hits = <<>> THEN undefined ELSE Some(Head(hits))

FindAmong(seq, context) ==
    IF seq = <<>> THEN undefined
    ELSE LET symbol == Head(seq)
         IN IF symbols[symbol].ctx = NoCtx
            THEN FindAmong(Tail(seq), context)
            ELSE IF properlyContains(symbols[symbol].ctx, context)
            THEN LET child == IF symbols[symbol].cls \in ScopedClasses
                              THEN findRecursive(SymbolRef(symbol), context)
                              ELSE undefined
                 IN IF IsDefined(child) THEN child ELSE Some(symbol)
            ELSE FindAmong(Tail(seq), context)

symbolContainingContext(t, context) == findRecursive(TableRef(t), context)

\* ---------------------------------------------------------- operations
\* lastOp tells a state that clear() has just produced from the others.
NoOp ==
    [op |-> "other", table |-> 0, deps |-> <<>>, calls |-> <<>>, full |-> FALSE]

EmptyMap == <<>>

\* Line 37: the owner is optional.  The tables of the first two grammars are
\* built by their source contexts; the third may stand alone.
Owned == {1, 2}

Init ==
    /\ symbols = <<>>
    /\ dependencies = [t \in Tables |-> <<>>]
    /\ owner \in {o \in [Tables -> {undefined} \cup {Some(t) : t \in Tables}] :
                     \A t \in Tables : o[t] \in IF t \in Owned THEN {Some(t)}
                                                 ELSE {undefined, Some(t)}}
    /\ references = [c \in Tables |-> <<>>]
    /\ symbolReferences = [t \in Tables |-> EmptyMap]
    /\ namedActions = [t \in Tables |-> <<>>]
    /\ parserActions = [t \in Tables |-> <<>>]
    /\ lexerActions = [t \in Tables |-> <<>>]
    /\ parserPredicates = [t \in Tables |-> <<>>]
    /\ lexerPredicates = [t \in Tables |-> <<>>]
    /\ lastOp = NoOp
    /\ refCalls = [t \in Tables |-> [n \in Names |-> 0]]
    /\ predOrder = [t \in Tables |-> <<>>]

\* The scopes of table t a new symbol can be added to.
Scopes(t) ==
    {TableRef(t)} \cup
    {SymbolRef(s) : s \in {x \in Ids : symbols[x].cls \in ScopedClasses
                                          /\ symbolTable(x) = Some(t)}}

\* (lib) SymbolTable.addNewSymbolOfType: a new symbol, the last child of its
\* parent (the tables are built with allowDuplicateSymbols).  Symbol ids are
\* arbitrary, so the files are walked in the order of their tables: this
\* keeps one numbering of each arrangement of symbols.
NewSymbol(t, cls, name, parent, ctx) ==
    /\ Len(symbols) < MaxSyms
    /\ \A s \in Ids : symbolTable(s)[1] <= t
    /\ symbols' = Append(symbols,
                     [cls |-> cls, name |-> name, parent |-> parent, ctx |-> ctx])

NewId == Len(symbols) + 1

caches ==
    << namedActions, parserActions, lexerActions, parserPredicates,
       lexerPredicates >>

graph == << dependencies, owner, references >>

\* A declaration or a reference the tree walk records in table t.
AddNewSymbol(t, cls, name, parent, ctx) ==
    /\ NewSymbol(t, cls, name, parent, ctx)
    /\ lastOp' = NoOp
    /\ UNCHANGED << graph, caches, symbolReferences, refCalls, predOrder >>

\* Lines 365-367.
defineNamedAction(t, action) ==
    namedActions' = [namedActions EXCEPT ![t] = Append(@, action)]

\* Lines 374-376.
defineParserAction(t, action) ==
    parserActions' = [parserActions EXCEPT ![t] = Append(@, action)]

\* Lines 383-385.
defineLexerAction(t, action) ==
    lexerActions' = [lexerActions EXCEPT ![t] = Append(@, action)]

\* The predicate put in front of the others of its cache.
definePredicateInFront(t, predicate, cls) ==
    IF cls = "LexerPredicateSymbol"
    THEN /\ lexerPredicates' = [lexerPredicates EXCEPT ![t] = <<predicate>> \o @]
         /\ UNCHANGED parserPredicates
    ELSE /\ parserPredicates' = [parserPredicates EXCEPT ![t] = <<predicate>> \o @]
         /\ UNCHANGED lexerPredicates

\* Lines 393-399; cls is the class of the predicate symbol.
definePredicate(t, predicate, cls) ==
    IF cls = "LexerPredicateSymbol"
    THEN /\ lexerPredicates' = [lexerPredicates EXCEPT ![t] = Append(@, predicate)]
         /\ UNCHANGED parserPredicates
    ELSE /\ parserPredicates' = [parserPredicates EXCEPT ![t] = Append(@, predicate)]
         /\ UNCHANGED lexerPredicates

\* The tree walk meets a named action: a new symbol, stored in the cache.
DefineNamedAction(t, cls, name, parent, ctx) ==
    /\ cls \in NamedActionClasses
    /\ NewSymbol(t, cls, name, parent, ctx)
    /\ defineNamedAction(t, NewId)
    /\ lastOp' = NoOp
    /\ UNCHANGED << graph, parserActions, lexerActions, parserPredicates,
                    lexerPredicates, symbolReferences, refCalls, predOrder >>

DefineParserAction(t, name, parent, ctx) ==
    /\ NewSymbol(t, "ParserActionSymbol", name, parent, ctx)
    /\ defineParserAction(t, NewId)
    /\ lastOp' = NoOp
    /\ UNCHANGED << graph, namedActions, lexerActions, parserPredicates,
                    lexerPredicates, symbolReferences, refCalls, predOrder >>

DefineLexerAction(t, name, parent, ctx) ==
    /\ NewSymbol(t, "LexerActionSymbol", name, parent, ctx)
    /\ defineLexerAction(t, NewId)
    /\ lastOp' = NoOp
    /\ UNCHANGED << graph, namedActions, parserActions, parserPredicates,
                    lexerPredicates, symbolReferences, refCalls, predOrder >>

DefinePredicate(t, cls, name, parent, ctx) ==
    /\ cls \in PredicateClasses
    /\ NewSymbol(t, cls, name, parent, ctx)
    /\ definePredicate(t, NewId, cls)
    /\ predOrder' = [predOrder EXCEPT ![t] = Append(@, NewId)]
    /\ lastOp' = NoOp
    /\ UNCHANGED << graph, namedActions, parserActions, lexerActions,
                    symbolReferences, refCalls >>

\* The count set to 1 whatever it was.
incrementResets(t, symbolName) == 1

\* Lines 308-315: the new count of a name.
incrementSymbolRefCount(t, symbolName) ==
    IF symbolName \in DOMAIN symbolReferences[t]
          /\ symbolReferences[t][symbolName] # 0
    THEN symbolReferences[t][symbolName] + 1
    ELSE 1

MapSet(map, key, value) ==
    [k \in DOMAIN map \cup {key} |-> IF k = key THEN value ELSE map[k]]

IncrementSymbolRefCount(t, symbolName) ==
    /\ getReferenceCount(t, symbolName) < MaxRefs
    /\ symbolReferences' =
          [symbolReferences EXCEPT
              ![t] = MapSet(@, symbolName, incrementSymbolRefCount(t, symbolName))]
    /\ refCalls' = [refCalls EXCEPT ![t][symbolName] = @ + 1]
    /\ lastOp' = NoOp
    /\ UNCHANGED << symbols, graph, caches, predOrder >>

\* -------------------------------------------------- dependencies, clear
RemoveFirst(seq, x) ==
    IF x \in Range(seq)
    THEN LET i == CHOOSE k \in 1..Len(seq) :
                     seq[k] = x /\ \A j \in 1..(k - 1) : seq[j] # x
         IN SubSeq(seq, 1, i - 1) \o SubSeq(seq, i + 1, Len(seq))
    ELSE seq

\* The part of the state a removeDependency call works on, and the calls made.
GraphState ==
    [dependencies |-> dependencies, references |-> references, calls |-> <<>>]

\* (ext) SourceContext.removeDependency, called on context this: this leaves
\* the dependents of the given context, and the table of this (table this)
\* drops the table of the context from its dependencies.
removeDependency(st, this, context) ==
    [dependencies |->
        [st.dependencies EXCEPT ![this] = RemoveFirst(@, context)],
     references |->
        [st.references EXCEPT ![context] = RemoveFirst(@, this)],
     calls |-> Append(st.calls, [this |-> this, context |-> context])]

\* Lines 44-48: the loop over the dependencies, a Set: an element deleted
\* while the loop runs is not visited later, and deleting the current element
\* does not disturb the visit of the others.
RECURSIVE NotifyLoop(_, _, _, _)
NotifyLoop(t, deps, i, st) ==
    IF i > Len(deps) THEN st
    ELSE LET dep == deps[i]
         IN IF dep \in Range(st.dependencies[t]) /\ IsDefined(owner[dep])
            THEN NotifyLoop(t, deps, i + 1,
                            removeDependency(st, owner[t][1], owner[dep][1]))
            ELSE NotifyLoop(t, deps, i + 1, st)

\* The loop as it would run over an array that the calls shorten: the element
\* after a removed one moves into its place and is passed over.
RECURSIVE NotifyLoopByIndex(_, _, _)
NotifyLoopByIndex(t, i, st) ==
    IF i > Len(st.dependencies[t]) THEN st
    ELSE LET dep == st.dependencies[t][i]
         IN IF IsDefined(owner[dep])
            THEN NotifyLoopByIndex(t, i + 1,
                     removeDependency(st, owner[t][1], owner[dep][1]))
            ELSE NotifyLoopByIndex(t, i + 1, st)

ClearNotifyByIndex(t) ==
    IF IsDefined(owner[t]) THEN NotifyLoopByIndex(t, 1, GraphState) ELSE GraphState

\* Lines 43-49.
ClearNotify(t) ==
    IF IsDefined(owner[t])
    THEN NotifyLoop(t, dependencies[t], 1, GraphState)
    ELSE GraphState

\* The symbols that stay when table t is cleared, and the id each gets: the
\* symbols of t leave the model and the others are numbered anew, in order.
Kept(t) == SortedSeq({s \in Ids : symbolTable(s) # Some(t)})

NewIdOf(t, s) == CHOOSE i \in 1..Len(Kept(t)) : Kept(t)[i] = s

Renumbered(t, cache) == [i \in 1..Len(cache) |-> NewIdOf(t, cache[i])]

\* (lib) SymbolTable.clear: the children and the dependencies are dropped.
SuperClear(t, st) ==
    /\ symbols' =
          [i \in 1..Len(Kept(t)) |->
              LET sym == symbols[Kept(t)[i]]
              IN IF sym.parent.kind = "symbol"
                 THEN [sym EXCEPT !.parent = SymbolRef(NewIdOf(t, sym.parent.id))]
                 ELSE sym]
    /\ dependencies' = [st.dependencies EXCEPT ![t] = <<>>]

\* What clear() leaves of a cache or of the reference counts of table t.
ClearedCache(t, cache) ==
    [u \in Tables |-> IF u = t THEN <<>> ELSE Renumbered(t, cache[u])]

\* The reference counts left as they are.
ReferencesKept(t) == symbolReferences

\* The reference counts set back to 0, the names kept.
ReferencesZeroed(t) ==
    [symbolReferences EXCEPT ![t] = [n \in DOMAIN @ |-> 0]]

\* Line 51: symbolReferences.clear().
ClearedReferences(t) == [symbolReferences EXCEPT ![t] = EmptyMap]

\* Lines 51-56: the reference counts and the five caches are emptied.
ClearCaches(t) ==
    /\ symbolReferences' = ClearedReferences(t)
    /\ namedActions' = ClearedCache(t, namedActions)
    /\ parserActions' = ClearedCache(t, parserActions)
    /\ lexerActions' = ClearedCache(t, lexerActions)
    /\ parserPredicates' = ClearedCache(t, parserPredicates)
    /\ lexerPredicates' = ClearedCache(t, lexerPredicates)

\* History: whether the table holds a symbol, a cached action of each cache
\* and a counted reference.
WasFull(t) ==
    /\ \E s \in Ids : symbols[s].parent = TableRef(t)
    /\ namedActions[t] # <<>> /\ parserPredicates[t] # <<>>
    /\ DOMAIN symbolReferences[t] # {}

\* Lines 41-59.
Clear(t) ==
    LET st == ClearNotify(t)
    IN /\ references' = st.references
       /\ ClearCaches(t)
       /\ SuperClear(t, st)
       /\ refCalls' = [refCalls EXCEPT ![t] = [n \in Names |-> 0]]
       /\ predOrder' = ClearedCache(t, predOrder)
       /\ lastOp' = [op |-> "clear", table |-> t,
                    deps |-> dependencies[t], calls |-> st.calls,
                    full |-> WasFull(t)]
       /\ UNCHANGED owner

\* Whether table d reaches table t over dependency links.
RECURSIVE Reaches(_, _, _)
Reaches(d, t, fuel) ==
    \/ d = t
    \/ /\ fuel > 0
       /\ \E e \in Range(dependencies[d]) : Reaches(e, t, fuel - 1)

\* (lib) SymbolTable.addDependencies: a Set, so a table is listed once.
addDependencies(t, d) ==
    [dependencies EXCEPT ![t] = IF d \in Range(@) THEN @ ELSE Append(@, d)]

\* (ext) SourceContext.addAsReferenceTo: context c starts to depend on
\* context d, unless that closes a circle or the link exists.
AddAsReferenceTo(c, d) ==
    /\ IsDefined(owner[c]) /\ IsDefined(owner[d])
    /\ c \notin Range(references[d])
    /\ ~Reaches(d, c, Cardinality(Tables))
    /\ references' = [references EXCEPT ![d] = Append(@, c)]
    /\ dependencies' = addDependencies(c, d)
    /\ lastOp' = NoOp
    /\ UNCHANGED << symbols, owner, caches, symbolReferences, refCalls, predOrder >>

\* A table without a source context gets its dependency directly.
AddDependencies(t, d) ==
    /\ owner[t] = undefined \/ owner[d] = undefined
    /\ d \notin Range(dependencies[t])
    /\ ~Reaches(d, t, Cardinality(Tables))
    /\ dependencies' = addDependencies(t, d)
    /\ lastOp' = NoOp
    /\ UNCHANGED << symbols, owner, references, caches, symbolReferences,
                    refCalls, predOrder >>

\* (ext) A source context releases one it depended on.
RemoveDependency(c, d) ==
    /\ IsDefined(owner[c]) /\ IsDefined(owner[d])
    /\ d \in Range(dependencies[c])
    /\ LET st == removeDependency(GraphState, c, d)
       IN /\ references' = st.references
          /\ dependencies' = st.dependencies
    /\ lastOp' = NoOp
    /\ UNCHANGED << symbols, owner, caches, symbolReferences, refCalls, predOrder >>

\* ------------------------------------------------------ the tree walk
\* The names a symbol of a class can carry: the grammar's lexer makes an
\* identifier a token name or a rule name by the case of its first letter.
NamesOf(cls) ==
    CASE cls = "OptionsSymbol" -> {"options"}
      [] cls = "OptionSymbol" -> {"tokenVocab"}
      [] cls = "RuleSymbol" -> {"expr"}
      [] cls = "ImportSymbol" -> {"AB"}
      [] cls \in ActionClasses -> {"skip"}
      [] OTHER -> {"A"}

\* Where the walk puts a symbol of a class: options in the options block,
\* references inside a rule, declarations at the top, actions at either.
ParentOK(cls, parent) ==
    CASE cls = "OptionSymbol" ->
            parent.kind = "symbol" /\ symbols[parent.id].cls = "OptionsSymbol"
      [] cls \in {"TerminalSymbol", "AlternativeSymbol"} ->
            /\ parent.kind = "symbol"
            /\ symbols[parent.id].cls \in {"RuleSymbol", "AlternativeSymbol"}
      [] cls \in ActionClasses ->
            parent.kind = "table" \/ symbols[parent.id].cls # "OptionsSymbol"
      [] OTHER -> parent.kind = "table"

\* The anchor of a symbol that spans the given tokens; built-ins have none.
CtxFor(cls, interval) == IF cls \in BuiltInClasses THEN NoCtx ELSE interval

WholeFile == <<0, MaxPos>>

\* --------------------------------------------------------------- Spec
\* Three grammars, their declarations and references, and the links between
\* them.
GraphClasses == {"TokenSymbol", "ImportSymbol", "RuleSymbol", "TerminalSymbol"}

Define(t) ==
    \E cls \in GraphClasses : \E name \in NamesOf(cls) : \E parent \in Scopes(t) :
        /\ ParentOK(cls, parent)
        /\ AddNewSymbol(t, cls, name, parent, CtxFor(cls, WholeFile))

Next ==
    \/ \E t \in Tables : Define(t)
    \/ \E t \in Tables : Clear(t)
    \/ \E c, d \in Tables : AddAsReferenceTo(c, d)
    \/ \E c, d \in Tables : RemoveDependency(c, d)

Spec == Init /\ [][Next]_vars

\* ----------------------------------------------------------- SpecGraph
\* The dependency graph of the three grammars: links come and go, tables are
\* cleared, and each table holds some token declarations.
DefineToken(t) ==
    AddNewSymbol(t, "TokenSymbol", "A", TableRef(t), WholeFile)

NextGraph ==
    \/ \E t \in Tables : DefineToken(t)
    \/ \E t \in Tables : Clear(t)
    \/ \E c, d \in Tables : AddAsReferenceTo(c, d)
    \/ \E c, d \in Tables : AddDependencies(c, d)
    \/ \E c, d \in Tables : RemoveDependency(c, d)

SpecGraph == Init /\ [][NextGraph]_vars

\* The dependencies a table had when it was cleared whose owner is set.
OwnedDeps(deps) == SelectSeq(deps, LAMBDA d : IsDefined(owner[d]))

\* C1: after clear() on a table whose owner is set, no owner of a table that
\* was one of its dependencies lists the owner of the cleared table as a
\* dependent, and removeDependency was called once for each such dependency,
\* in their order.
C1_ClearDropsReverseEdges ==
    (lastOp.op = "clear" /\ IsDefined(owner[lastOp.table])) =>
        LET this == owner[lastOp.table][1]
            owned == OwnedDeps(lastOp.deps)
        IN /\ \A i \in 1..Len(owned) :
                 this \notin Range(references[owner[owned[i]][1]])
           /\ lastOp.calls =
                 [i \in 1..Len(owned) |->
                     [this |-> this, context |-> owner[owned[i]][1]]]

\* A table with an owner and two owned dependencies has just been cleared.
C1_Witness ==
    /\ lastOp.op = "clear"
    /\ IsDefined(owner[lastOp.table])
    /\ Len(OwnedDeps(lastOp.deps)) >= 2
    /\ Len(lastOp.calls) >= 2

\* ---------------------------------------------------------- SpecCaches
\* One grammar: the walk of its tree meets actions, predicates, a token
\* declaration and uses of names; the table is cleared for the next walk.
\* The grammar can import a second one, which declares a token.
RefNames == {"A", "expr"}

Here == TableRef(1)

Local == Len(symbols) < MaxLocal

NamedActionFound ==
    \E cls \in NamedActionClasses :
        Local /\ DefineNamedAction(1, cls, "skip", Here, WholeFile)

ParserActionFound == Local /\ DefineParserAction(1, "skip", Here, WholeFile)

LexerActionFound == Local /\ DefineLexerAction(1, "skip", Here, WholeFile)

PredicateFound ==
    \E cls \in PredicateClasses :
        Local /\ DefinePredicate(1, cls, "skip", Here, WholeFile)

TokenFound == Local /\ AddNewSymbol(1, "TokenSymbol", "A", Here, WholeFile)

\* The imported grammar declares one token, after the walk of the first.
ImportedTokenFound ==
    /\ Local
    /\ \A s \in Ids : symbolTable(s) = Some(1)
    /\ AddNewSymbol(2, "TokenSymbol", "AB", TableRef(2), WholeFile)

NextCaches ==
    \/ NamedActionFound
    \/ ParserActionFound
    \/ LexerActionFound
    \/ PredicateFound
    \/ TokenFound
    \/ ImportedTokenFound
    \/ AddAsReferenceTo(1, 2)
    \/ \E n \in RefNames : IncrementSymbolRefCount(1, n)
    \/ Clear(1)

SpecCaches == Init /\ [][NextCaches]_vars

\* C2: after clear() nothing defined before is observable: no lookup by name
\* finds a symbol, every action count is 0 and every reference count is 0.
C2_ClearForgetsEverything ==
    lastOp.op = "clear" =>
        LET t == lastOp.table
        IN /\ \A n \in Names : \A k \in SymbolKinds : \A localOnly \in BOOLEAN :
                 /\ ~symbolExists(t, n, k, localOnly)
                 /\ contextForSymbol(t, n, k, localOnly) = undefined
           /\ \A n \in Names : getSymbolInfoByName(t, n) = undefined
           /\ \A type \in CodeActionTypes : getActionCounts(t)[type] = 0
           /\ \A n \in Names : getReferenceCount(t, n) = 0

\* A table with symbols, a named action, a predicate, counted references and
\* a dependency that declares a token has just been cleared.
C2_Witness ==
    /\ lastOp.op = "clear" /\ lastOp.table = 1 /\ lastOp.full
    /\ lastOp.deps = <<2>>
    /\ IsDefined(resolveSync(TableRef(2), "AB", TRUE))

\* C3: getUnreferencedSymbols() is the set of the names recorded with count
\* 0; a name incremented k times since creation or the last clear() has
\* reference count k, the other names keep theirs, and a name incremented at
\* least once is not reported unreferenced.
C3_ReferenceCounts ==
    \A t \in Tables :
        /\ getUnreferencedSymbols(t) =
              {n \in Names : n \in DOMAIN symbolReferences[t]
                                /\ symbolReferences[t][n] = 0}
        /\ \A n \in Names :
              /\ getReferenceCount(t, n) = refCalls[t][n]
              /\ refCalls[t][n] >= 1 => n \notin getUnreferencedSymbols(t)

\* One name was incremented twice and another once.
C3_Witness ==
    /\ refCalls[1]["A"] = 2 /\ getReferenceCount(1, "A") = 2
    /\ refCalls[1]["expr"] = 1 /\ getReferenceCount(1, "expr") = 1

\* The predicates of one class among those defined since the last clear().
OfClass(seq, cls) == SelectSeq(seq, LAMBDA s : symbols[s].cls = cls)

PredicateType(s) ==
    IF symbols[s].cls = "LexerPredicateSymbol"
    THEN "LexerPredicate" ELSE "ParserPredicate"

IsPrefix(a, b) == Len(a) <= Len(b) /\ SubSeq(b, 1, Len(a)) = a

\* C4 (as amended): the k-th lexer predicate defined is the k-th element of
\* the lexer predicate list, the k-th parser predicate defined the k-th
\* element of the parser predicate list, and no step but clear() moves a
\* predicate that is in a list.
C4_IndexPerList ==
    /\ [](\A t \in Tables :
            /\ actionListOfType(t, "LexerPredicate")
                  = OfClass(predOrder[t], "LexerPredicateSymbol")
            /\ actionListOfType(t, "ParserPredicate")
                  = OfClass(predOrder[t], "ParserPredicateSymbol"))
    /\ [][lastOp'.op # "clear" =>
            \A t \in Tables :
                /\ IsPrefix(lexerPredicates[t], lexerPredicates'[t])
                /\ IsPrefix(parserPredicates[t], parserPredicates'[t])]_vars

\* A lexer predicate was defined first and two parser predicates after it.
C4_Witness ==
    /\ Len(predOrder[1]) = 3
    /\ PredicateType(predOrder[1][1]) = "LexerPredicate"
    /\ parserPredicates[1] = <<predOrder[1][2], predOrder[1][3]>>

\* C4 as claimed: the k-th predicate defined, lexer and parser predicates
\* counted together, is the k-th element of the list of its type.
C4_IndexOverall ==
    \A t \in Tables : \A k \in 1..Len(predOrder[t]) :
        LET list == actionListOfType(t, PredicateType(predOrder[t][k]))
        IN k <= Len(list) /\ list[k] = predOrder[t][k]

\* ----------------------------------------------------------- SpecTable
\* One grammar: the walk of its tree meets declarations of every top-level
\* class, an options block and its tokenVocab option, in any order.
DeclaredClasses == Range(TopLevelClasses) \cup {"OptionsSymbol", "OptionSymbol"}

DeclarationFound ==
    \E cls \in DeclaredClasses : \E name \in NamesOf(cls) : \E parent \in Scopes(1) :
        /\ Local
        /\ ParentOK(cls, parent)
        /\ AddNewSymbol(1, cls, name, parent, CtxFor(cls, WholeFile))

NextTable ==
    \/ DeclarationFound
    \/ Clear(1)

SpecTable == Init /\ [][NextTable]_vars

\* The symbols declared at the top of table t.
Declared(t) == {s \in Ids : symbols[s].parent = TableRef(t)}

TokenKinds ==
    {"BuiltInLexerToken", "VirtualLexerToken", "FragmentLexerToken", "LexerRule"}

\* C5: symbolExistsInGroup(name, TokenRef, true) is true exactly when the
\* table declares the name as a built-in, virtual or fragment token or as a
\* lexer rule, and symbolExistsInGroup(name, RuleRef, true) exactly when it
\* declares the name as a parser rule.
C5_GroupMatchesKinds ==
    \A t \in Tables : \A n \in Names :
        /\ symbolExistsInGroup(t, n, "TokenRef", TRUE) <=>
              \E s \in Declared(t) :
                  symbols[s].name = n /\ getKindFromSymbol(s) \in TokenKinds
        /\ symbolExistsInGroup(t, n, "RuleRef", TRUE) <=>
              \E s \in Declared(t) :
                  symbols[s].name = n /\ getKindFromSymbol(s) = "ParserRule"

\* C6: every symbol defined in a table exists there under its name and kind,
\* and symbolExists(name, kind, true) is true only when the table holds a
\* symbol of that kind with that name.
C6_ExistsExactKind ==
    \A t \in Tables :
        /\ \A s \in Ids :
              symbolTable(s) = Some(t) =>
                  symbolExists(t, symbols[s].name, getKindFromSymbol(s), TRUE)
        /\ \A n \in Names : \A k \in SymbolKinds :
              symbolExists(t, n, k, TRUE) =>
                  \E s \in Ids : /\ symbolTable(s) = Some(t)
                                 /\ symbols[s].name = n
                                 /\ getKindFromSymbol(s) = k

\* The place of a class in the listing: 0 for the tokenVocab option.
Rank(s) ==
    IF symbols[s].cls = "OptionSymbol" THEN 0
    ELSE CHOOSE i \in 1..Len(TopLevelClasses) : TopLevelClasses[i] = symbols[s].cls

\* C7: listTopLevelSymbols(true) lists the tokenVocab option (of the first
\* options block) first, then the symbols declared at the top of the table
\* class by class in the fixed order; within a class in the order of their
\* declaration; each once.
C7_ListingOrder ==
    \A t \in Tables :
        LET list == listTopLevelSymbols(t, TRUE)
            listed == {list[i].of : i \in 1..Len(list)}
        IN /\ \A i \in 1..Len(list) :
                 \/ /\ symbols[list[i].of].cls = "OptionSymbol"
                    /\ symbols[list[i].of].name = "tokenVocab"
                    /\ i = 1
                 \/ /\ list[i].of \in Declared(t)
                    /\ symbols[list[i].of].cls \in Range(TopLevelClasses)
           /\ \A i, j \in 1..Len(list) :
                 i < j =>
                    \/ Rank(list[i].of) < Rank(list[j].of)
                    \/ /\ Rank(list[i].of) = Rank(list[j].of)
                       /\ list[i].of < list[j].of
           /\ \A s \in Declared(t) :
                 symbols[s].cls \in Range(TopLevelClasses) => s \in listed
           /\ \A o \in Declared(t) : \A v \in Ids :
                 (/\ symbols[o].name = "options"
                  /\ \A p \in Declared(t) : symbols[p].name = "options" => o <= p
                  /\ symbols[v].parent = SymbolRef(o)
                  /\ symbols[v].name = "tokenVocab")
                 => /\ Len(list) > 0
                    /\ Rank(list[1].of) = 0
                    /\ symbols[list[1].of].parent = SymbolRef(o)

\* Three symbols listed in the reverse of the order of their declaration, or
\* the tokenVocab option listed before a symbol declared before it.
C7_Witness ==
    LET list == listTopLevelSymbols(1, TRUE)
    IN \/ /\ Len(list) = 3
          /\ list[1].of > list[2].of /\ list[2].of > list[3].of
       \/ /\ Len(list) = 2
          /\ Rank(list[1].of) = 0 /\ list[1].of > list[2].of

\* ------------------------------------------------------------- SpecCtx
\* One grammar: the walk of its tree meets rules, alternatives and terminals
\* in them, and built-in tokens.  The anchor of a symbol is a node of the
\* tree: it lies within the anchor of the parent symbol and after the anchors
\* of the symbols met before in that parent.
AnchoredClasses ==
    {"RuleSymbol", "AlternativeSymbol", "TerminalSymbol", "BuiltInTokenSymbol"}

NodeFits(parent, interval) ==
    /\ parent.kind = "symbol" =>
          /\ symbols[parent.id].ctx[1] <= interval[1]
          /\ interval[2] <= symbols[parent.id].ctx[2]
    /\ \A c \in Ids :
          (symbols[c].parent = parent /\ symbols[c].ctx # NoCtx)
              => symbols[c].ctx[2] < interval[1]

AnchoredSymbolFound ==
    \E cls \in AnchoredClasses : \E parent \in Scopes(1) : \E interval \in Intervals :
        /\ Local
        /\ ParentOK(cls, parent)
        /\ IF cls \in BuiltInClasses THEN interval = WholeFile
           ELSE NodeFits(parent, interval)
        /\ AddNewSymbol(1, cls, "A", parent, CtxFor(cls, interval))

NextCtx ==
    \/ AnchoredSymbolFound
    \/ Clear(1)

SpecCtx == Init /\ [][NextCtx]_vars

\* Both ends of other lie within this.
Covers(this, other) == this[1] <= other[1] /\ other[2] <= this[2]

StrictlyCovers(this, other) == Covers(this, other) /\ this # other

RECURSIVE Depth(_)
Depth(s) ==
    IF symbols[s].parent.kind = "table" THEN 1
    ELSE 1 + Depth(symbols[s].parent.id)

\* The symbols of table t whose anchor covers the node.
Covering(t, node) ==
    {s \in Ids : /\ symbolTable(s) = Some(t)
                 /\ symbols[s].ctx # NoCtx
                 /\ Covers(symbols[s].ctx, node)}

StrictlyCovering(t, node) ==
    {s \in Covering(t, node) : StrictlyCovers(symbols[s].ctx, node)}

\* r is the one most deeply nested symbol of the set, undefined for none.
IsInnermost(r, set) ==
    IF set = {} THEN r = undefined
    ELSE /\ IsDefined(r)
         /\ r[1] \in set
         /\ \A s \in set : s # r[1] => Depth(s) < Depth(r[1])

DeclaringDependencies(t, name) ==
    SelectSeq(dependencies[t],
              LAMBDA d : IsDefined(resolveSync(TableRef(d), name, TRUE)))

\* C9: getSymbolInfo on table T1 for a terminal whose name T1 does not
\* declare and that direct dependencies of T1 declare returns the record of
\* the symbol of the first such dependency in insertion order, with the
\* filename of that dependency as source.
C9_TerminalFromFirstDependency ==
    \A s \in Ids :
        LET name == symbols[s].name
            declaring == DeclaringDependencies(1, name)
        IN (/\ symbolTable(s) = Some(1)
            /\ getKindFromSymbol(s) = "Terminal"
            /\ resolveSync(TableRef(1), name, TRUE) = undefined
            /\ declaring # <<>>
            /\ \A d \in Range(dependencies[1]) : dependencies[d] = <<>>)
           => LET first == Head(declaring)
                  info == getSymbolInfo(1, s)
              IN /\ info.of = resolveSync(TableRef(first), name, TRUE)[1]
                 /\ info.source = fileName(owner[first][1])

\* C10: for a symbol of kind TokenVocab or Import, when a direct dependency
\* of the table has an owner whose sourceId includes the name of the symbol,
\* getSymbolInfo returns the fileName of that owner as source and the span of
\* the tree of that dependency as definition, not those of the table asked.
C10_ImportFromDependency ==
    \A t \in Tables : \A s \in Ids :
        LET kind == getKindFromSymbol(s)
            matches == VocabImportMatches(t, symbols[s].name, kind)
        IN (/\ symbolTable(s) = Some(t)
            /\ kind \in {"TokenVocab", "Import"}
            /\ matches # <<>>)
           => /\ getSymbolInfo(t, s).source = matches[1].source
              /\ getSymbolInfo(t, s).definition = matches[1].definition

\* ------------------------------------------- resolution over links
\* Table e declares the name: a direct child of e has it.
Declares(e, name) ==
    \E s \in Ids : symbols[s].parent = TableRef(e) /\ symbols[s].name = name

\* The tables that t reaches over dependency links, t included, and that
\* declare the name.
DeclaringReached(t, name) ==
    {e \in Tables : Reaches(t, e, Cardinality(Tables)) /\ Declares(e, name)}

ActionCtxs == {NoCtx, WholeFile}

ActionNames == {"skip", "A"}

NamedActionStored ==
    \E cls \in NamedActionClasses : \E name \in ActionNames : \E ctx \in ActionCtxs :
        Local /\ DefineNamedAction(1, cls, name, Here, ctx)

ParserActionStored ==
    \E name \in ActionNames : \E ctx \in ActionCtxs :
        Local /\ DefineParserAction(1, name, Here, ctx)

LexerActionStored ==
    \E name \in ActionNames : \E ctx \in ActionCtxs :
        Local /\ DefineLexerAction(1, name, Here, ctx)

PredicateStored ==
    \E cls \in PredicateClasses : \E name \in ActionNames : \E ctx \in ActionCtxs :
        Local /\ DefinePredicate(1, cls, name, Here, ctx)

NextActions ==
    \/ NamedActionStored
    \/ ParserActionStored
    \/ LexerActionStored
    \/ PredicateStored
    \/ Clear(1)

SpecActions == Init /\ [][NextActions]_vars

IsActionsError(r) ==
    r.kind = "Unknown" /\ r.name = "Error getting actions list"

\* The positions of the entries of a list that have no anchor.
Unanchored(list) == {i \in 1..Len(list) : symbols[list[i]].ctx = NoCtx}

\* C12: listActions(type) always returns a list, and when the record of any
\* entry of the selected cache cannot be built (an action symbol without
\* anchor), the list is exactly one internal-error record and no other
\* record, whatever the position of that entry in the cache.
C12_ErrorRecordAlone ==
    \A type \in CodeActionTypes :
        Unanchored(actionListOfType(1, type)) # {}
            => /\ Len(listActions(1, type)) = 1
               /\ IsActionsError(listActions(1, type)[1])

\* ------------------------------------------------ unreferenced symbols
\* C13: no operation of the table records a reference count of 0: every
\* count in the map is at least 1, so after any sequence of define*,
\* incrementSymbolRefCount and clear calls getUnreferencedSymbols() is empty,
\* and a symbol that was declared but never referenced is not reported.
C13_NoneUnreferenced ==
    \A t \in Tables :
        /\ \A n \in DOMAIN symbolReferences[t] : symbolReferences[t][n] >= 1
        /\ getUnreferencedSymbols(t) = {}
        /\ \A s \in Ids :
              (symbolTable(s) = Some(t) /\ refCalls[t][symbols[s].name] = 0)
                 => symbols[s].name \notin getUnreferencedSymbols(t)

\* The token "A" is declared and was never referenced, "expr" was referenced,
\* and nothing is reported.
C13_Witness ==
    /\ Declares(1, "A")
    /\ "A" \notin DOMAIN symbolReferences[1]
    /\ getReferenceCount(1, "A") = 0
    /\ getReferenceCount(1, "expr") >= 1
    /\ getUnreferencedSymbols(1) = {}

====
